---------------------------- MODULE Spec2Model ----------------------------
(***************************************************************************)
(* Round engine of viertje/blackjack: src/src/lib/game/blackjack.ts        *)
(* (class BlackjackGame), with its card supply src/unnamed/part_006        *)
(* (class Deck, lib/api/deckAPI) and the enums of src/src/lib/enums.ts.    *)
(*                                                                         *)
(* Every engine operation (startGame, handleAction, newRound, restartGame) *)
(* is one action: it runs to completion or stops at the supply call that   *)
(* throws.  A card is its `value` string (the suit is never read by the    *)
(* engine).  Array indices are 0-based as in the source; the TLA+          *)
(* sequence element of index i is seq[i + 1].                              *)
(***************************************************************************)
EXTENDS Integers, Sequences, FiniteSets, TLC

(***************************************************************************)
(* Bounds of the model.                                                    *)
(***************************************************************************)
\* Hit is explored only while the hit hand holds fewer cards than this
MaxHandLen == 3
\* the dealer's draws are explored only up to a dealer hand of this many cards
MaxDealerLen == 4
\* startGame and handleAction are explored only while 0 <= playerBalance <= MaxBalance
MaxBalance == 1000
\* how many times, in one run, the supply fails or the caller calls an operation
\* in a phase in which the presentation layer does not offer it
MaxFaults == 1

\* the longest hand calculateHandValue and hasSoft17 are evaluated on
MaxEvalLen == 4

\* the card values the supply hands out
Ranks == {"ACE", "KING", "6"}

\* the four cards the supply hands out for the deal of a round: the player's
\* two, then the dealer's two
Deals ==
    { <<"ACE", "KING", "KING", "ACE">>,   \* both hands a natural blackjack
      <<"KING", "ACE", "KING", "6">>,     \* the player's only
      <<"KING", "6", "ACE", "KING">>,     \* the dealer's only
      <<"KING", "KING", "KING", "6">>,    \* a pair of tens, the dealer on 16
      <<"QUEEN", "KING", "6", "KING">>,   \* two faces of value 10, the dealer on 16
      <<"6", "6", "ACE", "6">>,           \* a pair of sixes, the dealer on soft 17
      <<"ACE", "ACE", "6", "6">>,         \* a pair of aces, the dealer on 12
      <<"KING", "6", "KING", "KING">>,    \* 16 against 20
      <<"ACE", "6", "6", "KING">> }       \* soft 17 against 16

\* bets the caller tries
Bets == {-2000, 5, 500}

(***************************************************************************)
(* enums.ts                                                                *)
(***************************************************************************)
CardValueACE == 11

PlayerBust == "Player Bust"
DealerBust == "Dealer Bust"
PlayerWins == "Player Wins"
DealerWins == "Dealer Wins"
Push == "Push"
PlayerBlackjack == "Player Blackjack"
DealerBlackjack == "Dealer Blackjack"
PlayerSurrender == "Player Surrender"

Betting == "betting"
InitialDeal == "initial deal"
PlayerTurn == "player turn"
DealerTurn == "dealer turn"
Outcome == "outcome"

Hit == "hit"
Stand == "stand"
DoubleDown == "double down"
Split == "split"
Surrender == "surrender"

PlayerActions == {Hit, Stand, DoubleDown, Split, Surrender}

WinPlayer == "player"
WinDealer == "dealer"
WinPush == "push"

\* the value null of gameOutcomes and of startGame's result
Null == "null"

(***************************************************************************)
(* Card supply (class Deck).  `deck` is NoDeck while the field is unset,   *)
(* otherwise the deck's `remaining`, which the engine only compares with   *)
(* reshuffleThreshold.  The count is the service's answer: a new 6-deck    *)
(* shoe reports FullShoe, the deal of a round's four cards leaves 125 (not *)
(* below the threshold), every later draw or reshuffle of the round leaves *)
(* 124 (below it).                                                         *)
(***************************************************************************)
NoDeck == -1
FullShoe == 312

\* data.remaining in the answer to draw(count) or reshuffle (count 0)
ReportedRemaining(count) == IF count = 4 THEN {125} ELSE {124}

\* a threshold of half a shoe instead of 40% of it
BelowThreshold_Half(remaining) == remaining * 2 < 312

\* reshuffleThreshold = 312 * 0.4 = 124.8; remaining < 124.8 on integers
BelowThreshold(remaining) == remaining * 10 < 312 * 4

(***************************************************************************)
(* Pure functions of BlackjackGame                                         *)
(***************************************************************************)
\* parseInt on the decimal card values the service uses
ParseInt(s) ==
    CASE s = "2" -> 2 [] s = "3" -> 3 [] s = "4" -> 4 [] s = "5" -> 5
      [] s = "6" -> 6 [] s = "7" -> 7 [] s = "8" -> 8 [] s = "9" -> 9
      [] s = "10" -> 10

\* the forEach of calculateHandValue, variable total after the first n cards
RECURSIVE CardsTotal(_, _)
CardsTotal(hand, n) ==
    IF n = 0 THEN 0
    ELSE CardsTotal(hand, n - 1)
         + (IF hand[n] = "ACE" THEN CardValueACE
            ELSE IF hand[n] \in {"KING", "QUEEN", "JACK"} THEN 10
            ELSE ParseInt(hand[n]))

\* the forEach of calculateHandValue, variable aces after the first n cards
RECURSIVE CardsAces(_, _)
CardsAces(hand, n) ==
    IF n = 0 THEN 0
    ELSE CardsAces(hand, n - 1) + (IF hand[n] = "ACE" THEN 1 ELSE 0)

\* the forEach of calculateHandValue: <<total, aces>> after the first n cards
SumCards(hand, n) == <<CardsTotal(hand, n), CardsAces(hand, n)>>

\* a loop that takes 10 off for every ace at once
ReduceAces_AllAtOnce(total, aces) == IF total > 21 THEN total - 10 * aces ELSE total

\* the while loop of calculateHandValue
RECURSIVE ReduceAces(_, _)
ReduceAces(total, aces) ==
    IF total > 21 /\ aces > 0 THEN ReduceAces(total - 10, aces - 1) ELSE total

calculateHandValue(hand) ==
    LET acc == SumCards(hand, Len(hand)) IN ReduceAces(acc[1], acc[2])

isNaturalBlackjack(hand) == calculateHandValue(hand) = 21 /\ Len(hand) = 2

\* isBust with 21 counted as over
hasSoft17(hand) ==
    /\ calculateHandValue(hand) = 17
    /\ \E i \in 1..Len(hand) : hand[i] = "ACE"

\* isBust that lets a hand of 22 play on
isBust_Over22(hand) == calculateHandValue(hand) > 22

isBust_AtLeast21(hand) == calculateHandValue(hand) >= 21

isBust(hand) == calculateHandValue(hand) > 21

determineWinner(playerHand, dealer) ==
    LET playerValue == calculateHandValue(playerHand)
        dealerValue == calculateHandValue(dealer)
    IN  IF playerValue > 21 THEN WinDealer
        ELSE IF dealerValue > 21 THEN WinPlayer
        ELSE IF playerValue > dealerValue THEN WinPlayer
        ELSE IF dealerValue > playerValue THEN WinDealer
        ELSE WinPush

\* getCardValue with the faces told apart
getCardValue_ByRank(card) ==
    IF card = "KING" THEN 13
    ELSE IF card = "QUEEN" THEN 12
    ELSE IF card = "JACK" THEN 11
    ELSE IF card = "ACE" THEN 14
    ELSE ParseInt(card)

getCardValue(card) ==
    IF card \in {"KING", "QUEEN", "JACK"} THEN 10
    ELSE IF card = "ACE" THEN 11
    ELSE ParseInt(card)

\* JavaScript's %: the remainder has the sign of the dividend
JsRem(a, b) == IF a >= 0 THEN a % b ELSE 0 - ((0 - a) % b)

\* Math.floor(bet * 2.5)
FloorTimes2p5(bet) == (bet * 5) \div 2


(***************************************************************************)
(* State: the fields of BlackjackGame, and what the caller saw of the      *)
(* last operation.                                                         *)
(***************************************************************************)
VARIABLES
    deck,               \* NoDeck, or deck.remaining
    playerHands,        \* sequence of hands, a hand a sequence of card values
    activeHandIndex,    \* 0-based
    dealerHand,
    playerBets,
    playerBalance,
    gameOver,
    splitHandsIndices,  \* sequence of 0-based hand indices
    currentPhase,
    gameOutcomes,       \* sequence of outcomes, Null for null
    lastOp,             \* the operation called last: "startGame", an action, ...
    lastBet,            \* startGame's argument, 0 for the other operations
    lastResult,         \* what it returned (Null, an outcome, Undefined) or threw
    lastDrawn,          \* the cards the supply handed out during it, in order
    lastCalls,          \* the calls it made to the supply, in order: [call, before],
                        \* before the deck's remaining (NoDeck) when the call was made
    roundBalance,       \* playerBalance when the last startGame that passed its
                        \* checks was called
    faults,             \* supply failures and calls out of phase so far
    shown,              \* the page's copies of the engine's phase, gameOver and
                        \* balance, as updateGameState last took them
    inFlight            \* the operations the page has begun that are awaiting
                        \* an answer of the supply, in the order they began

engine == <<deck, playerHands, activeHandIndex, dealerHand, playerBets,
            playerBalance, gameOver, splitHandsIndices, currentPhase, gameOutcomes>>

vars == <<deck, playerHands, activeHandIndex, dealerHand, playerBets,
          playerBalance, gameOver, splitHandsIndices, currentPhase, gameOutcomes,
          lastOp, lastBet, lastResult, lastDrawn, lastCalls, roundBalance, faults,
          shown, inFlight>>

\* the state of the page; the engine's operations leave it alone
page == <<shown, inFlight>>

\* results that are no outcome
Undefined == "undefined"
None == "none"

\* messages of the errors thrown
ErrBet == "Bet must be divisible by 10"
ErrBalance == "Insufficient balance"
ErrSplit == "Cannot split this hand"
ErrInitialize == "Failed to initialize deck"
ErrDraw == "Failed to draw card(s)"
ErrReshuffle == "Failed to reshuffle deck"
ErrNoDeck == "TypeError: deck is undefined"

Errors == {ErrBet, ErrBalance, ErrSplit, ErrInitialize, ErrDraw, ErrReshuffle, ErrNoDeck}

SupplyErrors == {ErrInitialize, ErrDraw, ErrReshuffle, ErrNoDeck}

\* no error
Ok == "ok"

Init ==
    /\ deck = NoDeck
    /\ playerHands = << <<>> >>
    /\ activeHandIndex = 0
    /\ dealerHand = <<>>
    /\ playerBets = <<0>>
    /\ playerBalance = 1000
    /\ gameOver = FALSE
    /\ splitHandsIndices = <<>>
    /\ currentPhase = Betting
    /\ gameOutcomes = <<Null>>
    /\ lastOp = None
    /\ lastBet = 0
    /\ lastResult = None
    /\ lastDrawn = <<>>
    /\ lastCalls = <<>>
    /\ roundBalance = 1000
    /\ faults = 0
    /\ shown = [phase |-> Betting, gameOver |-> FALSE, balance |-> 1000]
    /\ inFlight = <<>>

\* the guard that keeps the explored balances finite
InBounds == playerBalance >= 0 /\ playerBalance <= MaxBalance

\* the states in which the presentation layer offers an operation: the bet
\* form in Betting and New Round in Outcome, both unless the game is over,
\* the action buttons in PlayerTurn
Offered(op) ==
    IF op = "startGame" THEN currentPhase = Betting /\ ~gameOver
    ELSE IF op = "newRound" THEN currentPhase = Outcome /\ ~gameOver
    ELSE IF op = "restartGame" THEN TRUE
    ELSE currentPhase = PlayerTurn

\* a call of op that ends with result (an error the supply threw, or
\* anything else), within the bounds
Call(op, result) ==
    LET n == (IF Offered(op) THEN 0 ELSE 1)
             + (IF result \in {ErrInitialize, ErrDraw, ErrReshuffle} THEN 1 ELSE 0)
    IN  /\ faults + n <= MaxFaults
        /\ faults' = faults + n

getActiveHand == playerHands[activeHandIndex + 1]

getActiveHandBet == playerBets[activeHandIndex + 1]

(***************************************************************************)
(* hit(hand): maybeReshuffle, then deck.draw(1).  The ways it can go from  *)
(* a deck d: [err, card, deck], err = Ok when a card was pushed.           *)
(***************************************************************************)
maybeReshuffle(d) == IF BelowThreshold(d) THEN ReportedRemaining(0) ELSE {d}

\* the calls to the supply: Deck.initialize, deck.reshuffle, deck.draw
InitializeCall(d) == <<[call |-> "initialize", before |-> d]>>

ReshuffleCall(d) == <<[call |-> "reshuffle", before |-> d]>>

DrawCall(d) == <<[call |-> "draw", before |-> d]>>

\* the call maybeReshuffle makes from a deck d
maybeReshuffleCalls(d) == IF BelowThreshold(d) THEN ReshuffleCall(d) ELSE <<>>

\* the ways maybeReshuffle followed by deck.draw can throw: [err, deck, calls]
drawFailures(d) ==
    IF d = NoDeck
    THEN {[err |-> ErrNoDeck, deck |-> d, calls |-> <<>>]}
    ELSE (IF BelowThreshold(d)
          THEN {[err |-> ErrReshuffle, deck |-> d, calls |-> ReshuffleCall(d)]}
          ELSE {})
         \cup {[err |-> ErrDraw, deck |-> d1, calls |-> maybeReshuffleCalls(d) \o DrawCall(d1)] :
                  d1 \in maybeReshuffle(d)}

hit(d) ==
    {[err |-> f.err, card |-> "", deck |-> f.deck, calls |-> f.calls] : f \in drawFailures(d)}
    \cup (IF d = NoDeck THEN {}
          ELSE {[err |-> Ok, card |-> c, deck |-> d2,
                 calls |-> maybeReshuffleCalls(d) \o DrawCall(d1)] :
                   c \in Ranks, d1 \in maybeReshuffle(d), d2 \in ReportedRemaining(1)})

\* the calls of n hits in a row from a deck d, every one succeeding
RECURSIVE hitCalls(_, _)
hitCalls(d, n) ==
    IF n = 0 THEN <<>>
    ELSE LET d1 == CHOOSE x \in maybeReshuffle(d) : TRUE
             d2 == CHOOSE x \in ReportedRemaining(1) : TRUE
         IN  maybeReshuffleCalls(d) \o DrawCall(d1) \o hitCalls(d2, n - 1)

(***************************************************************************)
(* checkHandOutcome / checkAllHandsOutcome                                 *)
(***************************************************************************)
\* checkHandOutcome with the two bust cases in the other order
checkHandOutcome_DealerBustFirst(hand, bet, dealer) ==
    IF isBust(dealer) THEN [outcome |-> DealerBust, credit |-> bet * 2]
    ELSE IF isBust(hand) THEN [outcome |-> PlayerBust, credit |-> 0]
    ELSE LET w == determineWinner(hand, dealer)
         IN  IF w = WinPlayer THEN [outcome |-> PlayerWins, credit |-> bet * 2]
             ELSE IF w = WinDealer THEN [outcome |-> DealerWins, credit |-> 0]
             ELSE [outcome |-> Push, credit |-> bet]

\* checkHandOutcome that treats every winning two-card 21 as a natural
checkHandOutcome_SplitNatural(hand, bet, dealer) ==
    IF isBust(hand) THEN [outcome |-> PlayerBust, credit |-> 0]
    ELSE IF isBust(dealer) THEN [outcome |-> DealerBust, credit |-> bet * 2]
    ELSE LET w == determineWinner(hand, dealer)
         IN  IF w = WinPlayer /\ isNaturalBlackjack(hand)
             THEN [outcome |-> PlayerBlackjack, credit |-> FloorTimes2p5(bet)]
             ELSE IF w = WinPlayer THEN [outcome |-> PlayerWins, credit |-> bet * 2]
             ELSE IF w = WinDealer THEN [outcome |-> DealerWins, credit |-> 0]
             ELSE [outcome |-> Push, credit |-> bet]

\* checkHandOutcome without the credit of line 209
checkHandOutcome_PushLoses(hand, bet, dealer) ==
    IF isBust(hand) THEN [outcome |-> PlayerBust, credit |-> 0]
    ELSE IF isBust(dealer) THEN [outcome |-> DealerBust, credit |-> bet * 2]
    ELSE LET w == determineWinner(hand, dealer)
         IN  IF w = WinPlayer THEN [outcome |-> PlayerWins, credit |-> bet * 2]
             ELSE IF w = WinDealer THEN [outcome |-> DealerWins, credit |-> 0]
             ELSE [outcome |-> Push, credit |-> 0]

\* the outcome of one hand against the dealer's, and what it adds to the balance
checkHandOutcome(hand, bet, dealer) ==
    IF isBust(hand) THEN [outcome |-> PlayerBust, credit |-> 0]
    ELSE IF isBust(dealer) THEN [outcome |-> DealerBust, credit |-> bet * 2]
    ELSE LET w == determineWinner(hand, dealer)
         IN  IF w = WinPlayer THEN [outcome |-> PlayerWins, credit |-> bet * 2]
             ELSE IF w = WinDealer THEN [outcome |-> DealerWins, credit |-> 0]
             ELSE [outcome |-> Push, credit |-> bet]

\* the balance after the loop has handled the hands of index 0 .. n-1
RECURSIVE BalanceAfter(_, _, _, _, _)
BalanceAfter(hands, bets, dealer, balance, n) ==
    IF n = 0 THEN balance
    ELSE BalanceAfter(hands, bets, dealer, balance, n - 1)
         + checkHandOutcome(hands[n], bets[n], dealer).credit

checkAllHandsOutcome(hands, bets, dealer) ==
    [i \in 1..Len(hands) |-> checkHandOutcome(hands[i], bets[i], dealer).outcome]

(***************************************************************************)
(* dealerPlay: the dealer hits while below 17.                             *)
(***************************************************************************)
\* DealerFinalHands with the dealer standing on 16
RECURSIVE DealerFinalHands_Stop16(_)
DealerFinalHands_Stop16(dh) ==
    IF calculateHandValue(dh) >= 16 THEN {dh}
    ELSE IF Len(dh) >= MaxDealerLen THEN {}
    ELSE UNION {DealerFinalHands_Stop16(Append(dh, c)) : c \in Ranks}

\* the dealer hands the loop can end with, every hit succeeding
RECURSIVE DealerFinalHands(_)
DealerFinalHands(dh) ==
    IF calculateHandValue(dh) >= 17 THEN {dh}
    ELSE IF Len(dh) >= MaxDealerLen THEN {}
    ELSE UNION {DealerFinalHands(Append(dh, c)) : c \in Ranks}

\* the dealer hands below 17 the loop can pass through after at least one hit
RECURSIVE DealerPartialHands(_)
DealerPartialHands(dh) ==
    IF Len(dh) >= MaxDealerLen THEN {}
    ELSE UNION {IF calculateHandValue(Append(dh, c)) < 17
                THEN {Append(dh, c)} \cup DealerPartialHands(Append(dh, c))
                ELSE {} : c \in Ranks}

\* the ways the loop can run to its end: [dealerHand, deck, calls]
dealerPlay(dh, d) ==
    IF calculateHandValue(dh) >= 17
    THEN {[dealerHand |-> dh, deck |-> d, calls |-> <<>>]}
    ELSE IF d = NoDeck THEN {}
    ELSE {[dealerHand |-> f, deck |-> d2, calls |-> hitCalls(d, Len(f) - Len(dh))] :
            f \in DealerFinalHands(dh), d2 \in ReportedRemaining(1)}

\* the ways a hit of the loop can throw: [err, dealerHand, deck, calls]
dealerPlayFailures(dh, d) ==
    IF calculateHandValue(dh) >= 17 THEN {}
    ELSE {[err |-> f.err, dealerHand |-> dh, deck |-> f.deck, calls |-> f.calls] :
            f \in drawFailures(d)}
         \cup (IF d = NoDeck THEN {}
               ELSE {[err |-> f.err, dealerHand |-> p, deck |-> f.deck,
                      calls |-> hitCalls(d, Len(p) - Len(dh)) \o f.calls] :
                        p \in DealerPartialHands(dh),
                        f \in UNION {drawFailures(d1) : d1 \in ReportedRemaining(1)}})

\* a sequence without its first n elements
Drop(s, n) == SubSeq(s, n + 1, Len(s))


(***************************************************************************)
(* startGame(bet)                                                          *)
(***************************************************************************)
\* startGameCheck without the statement of line 62
startGameCheck_NoBalance(bet, balance) ==
    IF JsRem(bet, 10) # 0 THEN ErrBet ELSE Ok

\* the first two statements: the error thrown before anything is touched, or Ok
startGameCheck(bet, balance) ==
    IF JsRem(bet, 10) # 0 THEN ErrBet
    ELSE IF bet > balance THEN ErrBalance
    ELSE Ok

\* lines 79-80: the slices of the four cards drawn
playerCards(cards) == SubSeq(cards, 1, 2)

\* dealerCards with the slice one card early
dealerCards_Overlap(cards) == SubSeq(cards, 2, 3)

dealerCards(cards) == SubSeq(cards, 3, 4)

\* initialOutcome with the player's blackjack tested before the double one
initialOutcome_PlayerFirst(hand, dealer) ==
    IF isNaturalBlackjack(hand) THEN PlayerBlackjack
    ELSE IF isNaturalBlackjack(dealer) THEN DealerBlackjack
    ELSE Null

\* lines 82-106: the outcome returned for the two dealt hands, Null for none
initialOutcome(hand, dealer) ==
    LET playerHasBlackjack == isNaturalBlackjack(hand)
        dealerHasBlackjack == isNaturalBlackjack(dealer)
    IN  IF playerHasBlackjack /\ dealerHasBlackjack THEN Push
        ELSE IF playerHasBlackjack THEN PlayerBlackjack
        ELSE IF dealerHasBlackjack THEN DealerBlackjack
        ELSE Null

\* initialCredit with a blackjack paid 1:1
initialCredit_EvenMoney(outcome, bet) ==
    IF outcome = Push THEN bet
    ELSE IF outcome = PlayerBlackjack THEN bet * 2
    ELSE 0

\* lines 88-101: what the outcome of the initial deal adds to the balance
initialCredit(outcome, bet) ==
    IF outcome = Push THEN bet
    ELSE IF outcome = PlayerBlackjack THEN FloorTimes2p5(bet)
    ELSE 0

\* lines 64-72, common to every run that passed the two checks
startGameReset(bet) ==
    /\ playerHands' = << <<>> >>
    /\ playerBets' = <<bet>>
    /\ activeHandIndex' = 0
    /\ gameOutcomes' = <<Null>>
    /\ splitHandsIndices' = <<>>
    /\ playerBalance' = playerBalance - bet
    /\ currentPhase' = InitialDeal

\* the bet is refused
StartGameRejected(bet) ==
    /\ UNCHANGED page
    /\ InBounds
    /\ Call("startGame", Ok)
    /\ startGameCheck(bet, playerBalance) # Ok
    /\ lastOp' = "startGame"
    /\ lastBet' = bet
    /\ lastResult' = startGameCheck(bet, playerBalance)
    /\ lastDrawn' = <<>>
    /\ lastCalls' = <<>>
    /\ UNCHANGED <<engine, roundBalance>>

\* lines 74-76: the deck the four cards are drawn from
startGameDeck(d) == IF d = NoDeck \/ BelowThreshold(d) THEN FullShoe ELSE d

\* lines 74-78: the calls to the supply
startGameCalls(d) ==
    (IF d = NoDeck \/ BelowThreshold(d) THEN InitializeCall(d) ELSE <<>>)
    \o DrawCall(startGameDeck(d))

\* Deck.initialize or deck.draw(4) throws
StartGameSupplyFails(bet) ==
    /\ UNCHANGED page
    /\ InBounds
    /\ Call("startGame", ErrDraw)
    /\ startGameCheck(bet, playerBalance) = Ok
    /\ startGameReset(bet)
    /\ \/ /\ deck = NoDeck \/ BelowThreshold(deck)
          /\ lastResult' = ErrInitialize
          /\ deck' = deck
          /\ lastCalls' = InitializeCall(deck)
       \/ /\ lastResult' = ErrDraw
          /\ deck' = startGameDeck(deck)
          /\ lastCalls' = startGameCalls(deck)
    /\ lastOp' = "startGame"
    /\ lastBet' = bet
    /\ lastDrawn' = <<>>
    /\ roundBalance' = playerBalance
    /\ UNCHANGED <<dealerHand, gameOver>>

\* the four cards are dealt
StartGame(bet) ==
    /\ UNCHANGED page
    /\ InBounds
    /\ Call("startGame", Ok)
    /\ startGameCheck(bet, playerBalance) = Ok
    /\ \E cards \in Deals, rem \in ReportedRemaining(4) :
         LET hand == playerCards(cards)
             dealer == dealerCards(cards)
             outcome == initialOutcome(hand, dealer)
         IN  /\ deck' = rem
             /\ playerHands' = <<hand>>
             /\ dealerHand' = dealer
             /\ playerBets' = <<bet>>
             /\ activeHandIndex' = 0
             /\ splitHandsIndices' = <<>>
             /\ gameOutcomes' = <<outcome>>
             /\ playerBalance' = (playerBalance - bet) + initialCredit(outcome, bet)
             /\ currentPhase' = IF outcome = Null THEN PlayerTurn ELSE Outcome
             /\ lastResult' = outcome
             /\ lastDrawn' = cards
    /\ lastCalls' = startGameCalls(deck)
    /\ roundBalance' = playerBalance
    /\ lastOp' = "startGame"
    /\ lastBet' = bet
    /\ UNCHANGED gameOver

(***************************************************************************)
(* newRound, restartGame                                                   *)
(***************************************************************************)
\* newRound without the reset of line 460
NewRound_KeepsDealerHand ==
    /\ UNCHANGED page
    /\ currentPhase' = Betting
    /\ playerHands' = << <<>> >>
    /\ playerBets' = <<0>>
    /\ activeHandIndex' = 0
    /\ gameOutcomes' = <<Null>>
    /\ splitHandsIndices' = <<>>
    /\ lastOp' = "newRound"
    /\ lastBet' = 0
    /\ lastResult' = Undefined
    /\ lastDrawn' = <<>>
    /\ lastCalls' = <<>>
    /\ Call("newRound", Ok)
    /\ UNCHANGED <<deck, dealerHand, playerBalance, gameOver, roundBalance>>

NewRound ==
    /\ UNCHANGED page
    /\ currentPhase' = Betting
    /\ playerHands' = << <<>> >>
    /\ playerBets' = <<0>>
    /\ activeHandIndex' = 0
    /\ gameOutcomes' = <<Null>>
    /\ splitHandsIndices' = <<>>
    /\ dealerHand' = <<>>
    /\ lastOp' = "newRound"
    /\ lastBet' = 0
    /\ lastResult' = Undefined
    /\ lastDrawn' = <<>>
    /\ lastCalls' = <<>>
    /\ Call("newRound", Ok)
    /\ UNCHANGED <<deck, playerBalance, gameOver, roundBalance>>

\* restartGame without the reset of line 234
RestartGame_KeepsGameOver ==
    /\ UNCHANGED page
    /\ playerBalance' = 1000
    /\ currentPhase' = Betting
    /\ playerHands' = << <<>> >>
    /\ playerBets' = <<0>>
    /\ activeHandIndex' = 0
    /\ gameOutcomes' = <<Null>>
    /\ splitHandsIndices' = <<>>
    /\ lastOp' = "restartGame"
    /\ lastBet' = 0
    /\ lastResult' = Undefined
    /\ lastDrawn' = <<>>
    /\ lastCalls' = <<>>
    /\ Call("restartGame", Ok)
    /\ UNCHANGED <<deck, dealerHand, gameOver, roundBalance>>

RestartGame ==
    /\ UNCHANGED page
    /\ playerBalance' = 1000
    /\ gameOver' = FALSE
    /\ currentPhase' = Betting
    /\ playerHands' = << <<>> >>
    /\ playerBets' = <<0>>
    /\ activeHandIndex' = 0
    /\ gameOutcomes' = <<Null>>
    /\ splitHandsIndices' = <<>>
    /\ lastOp' = "restartGame"
    /\ lastBet' = 0
    /\ lastResult' = Undefined
    /\ lastDrawn' = <<>>
    /\ lastCalls' = <<>>
    /\ Call("restartGame", Ok)
    /\ UNCHANGED <<deck, dealerHand, roundBalance>>


(***************************************************************************)
(* handleAction(action)                                                    *)
(***************************************************************************)
\* moveToNextHand that never finds a next hand
moveToNextHand_Never(index, hands) == [moved |-> FALSE, index |-> index]

\* moveToNextHand that goes back to the first hand after the last one
moveToNextHand_Wraps(index, hands) ==
    [moved |-> TRUE, index |-> (index + 1) % Len(hands)]

\* moveToNextHand that reports the next hand without the increment
moveToNextHand_NoAdvance(index, hands) ==
    [moved |-> index < Len(hands) - 1, index |-> index]

\* moveToNextHand with the last hand taken for one before the last
moveToNextHand_OffByOne(index, hands) ==
    IF index < Len(hands)
    THEN [moved |-> TRUE, index |-> index + 1]
    ELSE [moved |-> FALSE, index |-> index]

\* moveToNextHand: whether it moved, and the index it leaves
moveToNextHand(index, hands) ==
    IF index < Len(hands) - 1
    THEN [moved |-> TRUE, index |-> index + 1]
    ELSE [moved |-> FALSE, index |-> index]

checkGameOver(balance) == balance <= 0

\* lines 418-425 and 431-438: the next hand, or the dealer's turn.  hands,
\* outcomes, d, drawn and calls are the player hands, the outcomes, the deck,
\* the cards drawn and the calls to the supply as the action has left them so
\* far.
endOfHand(hands, outcomes, d, drawn, calls) ==
    LET next == moveToNextHand(activeHandIndex, hands)
    IN  /\ playerHands' = hands
        /\ activeHandIndex' = next.index
        /\ IF next.moved
           THEN /\ gameOutcomes' = outcomes
                /\ deck' = d
                /\ lastDrawn' = drawn
                /\ lastCalls' = calls
                /\ lastResult' = Undefined
                /\ Call("handleAction", Ok)
                /\ UNCHANGED <<currentPhase, dealerHand, playerBalance, gameOver>>
           ELSE \/ /\ Call("handleAction", Ok)
                   /\ \E r \in dealerPlay(dealerHand, d) :
                        /\ dealerHand' = r.dealerHand
                        /\ deck' = r.deck
                        /\ lastDrawn' = drawn \o Drop(r.dealerHand, Len(dealerHand))
                        /\ lastCalls' = calls \o r.calls
                        /\ currentPhase' = Outcome
                        /\ gameOutcomes' = checkAllHandsOutcome(hands, playerBets, r.dealerHand)
                        /\ playerBalance' =
                              BalanceAfter(hands, playerBets, r.dealerHand, playerBalance, Len(hands))
                        /\ gameOver' = checkGameOver(playerBalance')
                        /\ lastResult' = Undefined
                \/ \E r \in dealerPlayFailures(dealerHand, d) :
                        /\ Call("handleAction", r.err)
                        /\ dealerHand' = r.dealerHand
                        /\ deck' = r.deck
                        /\ lastDrawn' = drawn \o Drop(r.dealerHand, Len(dealerHand))
                        /\ lastCalls' = calls \o r.calls
                        /\ currentPhase' = DealerTurn
                        /\ gameOutcomes' = outcomes
                        /\ lastResult' = r.err
                        /\ UNCHANGED <<playerBalance, gameOver>>

\* case PlayerAction.Hit, lines 409-427
handleActionHit ==
    /\ UNCHANGED page
    /\ lastOp' = Hit
    /\ lastBet' = 0
    /\ UNCHANGED <<playerBets, splitHandsIndices, roundBalance>>
    /\ \E o \in hit(deck) :
         IF o.err # Ok
         THEN /\ Call("handleAction", o.err)
              /\ deck' = o.deck
              /\ lastResult' = o.err
              /\ lastDrawn' = <<>>
              /\ lastCalls' = o.calls
              /\ UNCHANGED <<playerHands, activeHandIndex, dealerHand, playerBalance,
                             gameOver, currentPhase, gameOutcomes>>
         ELSE LET activeHand == Append(getActiveHand, o.card)
                  hands == [playerHands EXCEPT ![activeHandIndex + 1] = activeHand]
              IN  IF isBust(activeHand)
                  THEN endOfHand(hands,
                                 [gameOutcomes EXCEPT ![activeHandIndex + 1] = PlayerBust],
                                 o.deck, <<o.card>>, o.calls)
                  ELSE /\ Call("handleAction", Ok)
                       /\ playerHands' = hands
                       /\ deck' = o.deck
                       /\ lastResult' = Undefined
                       /\ lastDrawn' = <<o.card>>
                       /\ lastCalls' = o.calls
                       /\ UNCHANGED <<activeHandIndex, dealerHand, playerBalance,
                                      gameOver, currentPhase, gameOutcomes>>

HandleHit ==
    /\ InBounds
    /\ Len(getActiveHand) < MaxHandLen
    /\ handleActionHit

HandleStand ==
    /\ UNCHANGED page
    /\ InBounds
    /\ lastOp' = Stand
    /\ lastBet' = 0
    /\ UNCHANGED <<playerBets, splitHandsIndices, roundBalance>>
    /\ endOfHand(playerHands, gameOutcomes, deck, <<>>, <<>>)

\* canSplit without the test of line 323
canSplit_NoMarkerCheck ==
    LET hand == getActiveHand
    IN  IF Len(hand) # 2 THEN FALSE
        ELSE /\ getCardValue(hand[1]) = getCardValue(hand[2])
             /\ playerBalance >= getActiveHandBet

canSplit ==
    LET hand == getActiveHand
    IN  IF Len(hand) # 2 THEN FALSE
        ELSE IF \E i \in 1..Len(splitHandsIndices) : splitHandsIndices[i] = activeHandIndex
        THEN FALSE
        ELSE /\ getCardValue(hand[1]) = getCardValue(hand[2])
             /\ playerBalance >= getActiveHandBet

\* canSplit is false: handleAction throws
HandleSplitRejected ==
    /\ UNCHANGED page
    /\ InBounds
    /\ Call("handleAction", Ok)
    /\ ~canSplit
    /\ lastOp' = Split
    /\ lastBet' = 0
    /\ lastResult' = ErrSplit
    /\ lastDrawn' = <<>>
    /\ lastCalls' = <<>>
    /\ UNCHANGED <<engine, roundBalance>>

\* splitHand with the two drawn cards given to the wrong hands
splitHand_SwappedCards(hands, bets, outcomes, markers, index, c1, c2) ==
    LET activeHand == hands[index + 1]
    IN  [hands    |-> Append([hands EXCEPT ![index + 1] = <<activeHand[1], c2>>],
                             <<activeHand[2], c1>>),
         markers  |-> markers \o <<index, Len(hands)>>,
         bets     |-> Append(bets, bets[index + 1]),
         outcomes |-> Append(outcomes, Null)]

\* splitHand without the placeholder of line 385
splitHand_NoPlaceholder(hands, bets, outcomes, markers, index, c1, c2) ==
    LET activeHand == hands[index + 1]
    IN  [hands    |-> Append([hands EXCEPT ![index + 1] = <<activeHand[1], c1>>],
                             <<activeHand[2], c2>>),
         markers  |-> markers \o <<index, Len(hands)>>,
         bets     |-> Append(bets, bets[index + 1]),
         outcomes |-> outcomes]

\* lines 354-385 of splitHand once the two cards c1, c2 are drawn: the four
\* collections it leaves
splitHand(hands, bets, outcomes, markers, index, c1, c2) ==
    LET activeHand == hands[index + 1]
        bet == bets[index + 1]
        hand1 == <<activeHand[1], c1>>
        hand2 == <<activeHand[2], c2>>
    IN  [hands    |-> Append([hands EXCEPT ![index + 1] = hand1], hand2),
         markers  |-> markers \o <<index, Len(hands)>>,
         bets     |-> Append(bets, bet),
         outcomes |-> Append(outcomes, Null)]

\* splitHand
HandleSplit ==
    /\ UNCHANGED page
    /\ InBounds
    /\ canSplit
    /\ lastOp' = Split
    /\ lastBet' = 0
    /\ playerBalance' = playerBalance - getActiveHandBet
    /\ UNCHANGED <<activeHandIndex, dealerHand, gameOver, currentPhase, roundBalance>>
    /\ \/ \E f \in drawFailures(deck) :
            /\ Call("handleAction", f.err)
            /\ deck' = f.deck
            /\ lastResult' = f.err
            /\ lastDrawn' = <<>>
            /\ lastCalls' = f.calls
            /\ UNCHANGED <<playerHands, playerBets, splitHandsIndices, gameOutcomes>>
       \/ /\ deck # NoDeck
          /\ Call("handleAction", Ok)
          /\ \E c1 \in Ranks, c2 \in Ranks, rem \in ReportedRemaining(2) :
               LET r == splitHand(playerHands, playerBets, gameOutcomes,
                                  splitHandsIndices, activeHandIndex, c1, c2)
               IN  /\ deck' = rem
                   /\ playerHands' = r.hands
                   /\ splitHandsIndices' = r.markers
                   /\ playerBets' = r.bets
                   /\ gameOutcomes' = r.outcomes
                   /\ lastResult' = Undefined
                   /\ lastDrawn' = <<c1, c2>>
                   /\ lastCalls' = maybeReshuffleCalls(deck)
                                    \o DrawCall(CHOOSE x \in maybeReshuffle(deck) : TRUE)

\* DoubleDown and Surrender have no case in the switch
HandleNoCase(action) ==
    /\ UNCHANGED page
    /\ InBounds
    /\ Call("handleAction", Ok)
    /\ action \in {DoubleDown, Surrender}
    /\ lastOp' = action
    /\ lastBet' = 0
    /\ lastResult' = Undefined
    /\ lastDrawn' = <<>>
    /\ lastCalls' = <<>>
    /\ UNCHANGED <<engine, roundBalance>>

handleAction(action) ==
    \/ action = Hit /\ HandleHit
    \/ action = Stand /\ HandleStand
    \/ action = Split /\ (HandleSplitRejected \/ HandleSplit)
    \/ HandleNoCase(action)

startGame(bet) ==
    \/ StartGameRejected(bet)
    \/ StartGameSupplyFails(bet)
    \/ StartGame(bet)

Next ==
    \/ \E bet \in Bets : startGame(bet)
    \/ \E action \in PlayerActions : handleAction(action)
    \/ NewRound
    \/ RestartGame

Spec == Init /\ [][Next]_vars

(***************************************************************************)
(* calculateHandValue and hasSoft17 on their own: a game as constructed,   *)
(* except that its hand is any hand of up to MaxEvalLen cards of the       *)
(* thirteen values, on which the two functions are evaluated.              *)
(***************************************************************************)
\* the values of Card.value
CardValues ==
    {"ACE", "2", "3", "4", "5", "6", "7", "8", "9", "10", "JACK", "QUEEN", "KING"}

Hands == UNION {[1..n -> CardValues] : n \in 0..MaxEvalLen}

HandInit ==
    /\ deck = NoDeck
    /\ playerHands \in {<<hand>> : hand \in Hands}
    /\ activeHandIndex = 0
    /\ dealerHand = <<>>
    /\ playerBets = <<0>>
    /\ playerBalance = 1000
    /\ gameOver = FALSE
    /\ splitHandsIndices = <<>>
    /\ currentPhase = Betting
    /\ gameOutcomes = <<Null>>
    /\ lastOp = None
    /\ lastBet = 0
    /\ lastResult = None
    /\ lastDrawn = <<>>
    /\ lastCalls = <<>>
    /\ roundBalance = 1000
    /\ faults = 0
    /\ shown = [phase |-> Betting, gameOver |-> FALSE, balance |-> 1000]
    /\ inFlight = <<>>

EvalCalculateHandValue ==
    /\ UNCHANGED page
    /\ lastOp' = "calculateHandValue"
    /\ lastResult' = calculateHandValue(getActiveHand)
    /\ lastBet' = 0
    /\ lastDrawn' = <<>>
    /\ lastCalls' = <<>>
    /\ UNCHANGED <<engine, roundBalance, faults>>

EvalHasSoft17 ==
    /\ UNCHANGED page
    /\ lastOp' = "hasSoft17"
    /\ lastResult' = hasSoft17(getActiveHand)
    /\ lastBet' = 0
    /\ lastDrawn' = <<>>
    /\ lastCalls' = <<>>
    /\ UNCHANGED <<engine, roundBalance, faults>>

HandNext ==
    \/ EvalCalculateHandValue
    \/ EvalHasSoft17

HandSpec == HandInit /\ [][HandNext]_vars

(***************************************************************************)
(* A round played to its end: a round of 500 as startGame deals it from a  *)
(* new game, without a blackjack, and a caller who, while the phase is     *)
(* PlayerTurn, keeps calling handleAction with Hit or Stand (and may       *)
(* Split).  Every draw returns a card; a hand takes as many Hits as the    *)
(* engine lets it.                                                         *)
(***************************************************************************)
\* the deals the rounds start from: a pair that can be split, and a soft
\* hand that can take many cards
RoundDeals ==
    { <<"KING", "KING", "ACE", "6">>,
      <<"ACE", "6", "6", "KING">> }

RoundInit ==
    /\ \E cards \in RoundDeals :
         /\ initialOutcome(playerCards(cards), dealerCards(cards)) = Null
         /\ playerHands = <<playerCards(cards)>>
         /\ dealerHand = dealerCards(cards)
         /\ lastDrawn = cards
    /\ deck = 125
    /\ activeHandIndex = 0
    /\ playerBets = <<500>>
    /\ playerBalance = 500
    /\ gameOver = FALSE
    /\ splitHandsIndices = <<>>
    /\ currentPhase = PlayerTurn
    /\ gameOutcomes = <<Null>>
    /\ lastOp = "startGame"
    /\ lastBet = 500
    /\ lastResult = Null
    /\ lastCalls = startGameCalls(NoDeck)
    /\ roundBalance = 1000
    /\ faults = 0
    /\ shown = [phase |-> PlayerTurn, gameOver |-> FALSE, balance |-> 500]
    /\ inFlight = <<>>

RoundHit == currentPhase = PlayerTurn /\ handleActionHit /\ lastResult' \notin Errors

RoundStand == currentPhase = PlayerTurn /\ HandleStand /\ lastResult' \notin Errors

RoundSplit == currentPhase = PlayerTurn /\ HandleSplit /\ lastResult' \notin Errors

RoundNext ==
    \/ RoundHit
    \/ RoundStand
    \/ RoundSplit

\* the caller keeps issuing Hit or Stand
RoundSpec == RoundInit /\ [][RoundNext]_vars /\ WF_vars(RoundHit \/ RoundStand)

(***************************************************************************)
(* dealerPlay on its own, one pass of its loop per step: a round of 500    *)
(* dealt KING, 7 to the player and any two cards but a natural to the      *)
(* dealer, at the moment handleAction has set the phase to DealerTurn.     *)
(* Every draw returns a card.                                              *)
(***************************************************************************)
\* the card values the supply hands out to the dealer: the ace, whose score
\* can drop from 11 to 1, a small, a middle and a ten-valued card
DealerRanks == {"ACE", "2", "5", "KING"}

\* lines 121-123 of hit without the push
pushDrawn_Nothing(hand, cards) == hand

\* lines 121-123 of hit
pushDrawn(hand, cards) == IF Len(cards) > 0 THEN Append(hand, cards[1]) ELSE hand

DealerInit ==
    /\ deck = 125
    /\ playerHands = << <<"KING", "7">> >>
    /\ activeHandIndex = 0
    /\ dealerHand \in {dh \in [1..2 -> DealerRanks] : ~isNaturalBlackjack(dh)}
    /\ playerBets = <<500>>
    /\ playerBalance = 500
    /\ gameOver = FALSE
    /\ splitHandsIndices = <<>>
    /\ currentPhase = DealerTurn
    /\ gameOutcomes = <<Null>>
    /\ lastOp = Stand
    /\ lastBet = 0
    /\ lastResult = None
    /\ lastDrawn = <<>>
    /\ lastCalls = <<>>
    /\ roundBalance = 1000
    /\ faults = 0
    /\ shown = [phase |-> PlayerTurn, gameOver |-> FALSE, balance |-> 500]
    /\ inFlight = <<>>

\* one pass of the while loop of dealerPlay: hitDealer
DealerHit ==
    /\ UNCHANGED page
    /\ currentPhase = DealerTurn
    /\ calculateHandValue(dealerHand) < 17
    /\ \E c \in DealerRanks, d1 \in maybeReshuffle(deck), d2 \in ReportedRemaining(1) :
         /\ dealerHand' = pushDrawn(dealerHand, <<c>>)
         /\ deck' = d2
         /\ lastDrawn' = <<c>>
         /\ lastCalls' = maybeReshuffleCalls(deck) \o DrawCall(d1)
    /\ lastOp' = "hitDealer"
    /\ lastBet' = 0
    /\ lastResult' = Undefined
    /\ UNCHANGED <<playerHands, activeHandIndex, playerBets, playerBalance, gameOver,
                   splitHandsIndices, currentPhase, gameOutcomes, roundBalance, faults>>

\* the loop ends: lines 142-143 of dealerPlay and the checkGameOver that
\* follows it in handleAction
DealerDone ==
    /\ UNCHANGED page
    /\ currentPhase = DealerTurn
    /\ calculateHandValue(dealerHand) >= 17
    /\ currentPhase' = Outcome
    /\ gameOutcomes' = checkAllHandsOutcome(playerHands, playerBets, dealerHand)
    /\ playerBalance' =
          BalanceAfter(playerHands, playerBets, dealerHand, playerBalance, Len(playerHands))
    /\ gameOver' = checkGameOver(playerBalance')
    /\ lastOp' = "dealerPlay"
    /\ lastBet' = 0
    /\ lastResult' = Undefined
    /\ lastDrawn' = <<>>
    /\ lastCalls' = <<>>
    /\ UNCHANGED <<deck, playerHands, activeHandIndex, dealerHand, playerBets,
                   splitHandsIndices, roundBalance, faults>>

DealerNext ==
    \/ DealerHit
    \/ DealerDone

\* the loop is one continuation of awaits: while a pass or the end of the
\* loop is possible, it is taken
DealerSpec == DealerInit /\ [][DealerNext]_vars /\ WF_vars(DealerNext)

(***************************************************************************)
(* The page as the caller (routes/blackjack/+page.svelte).  A click begins *)
(* an engine operation, which runs up to its first await of the supply     *)
(* and is resumed by the supply's answer; updateGameState runs once the    *)
(* operation has returned.  The page shows its buttons by its own copies   *)
(* of the engine's state (shown), which only updateGameState refreshes.    *)
(* The clicks explored are part of those the page allows: Hit and Stand    *)
(* while no startGame is awaiting, New Round and Restart Game while        *)
(* nothing is awaiting, never Split; the answers to the calls of one       *)
(* operation arrive together, and the operation then runs to its end.      *)
(***************************************************************************)
\* the operations that may be awaiting at once
MaxInFlight == 2

\* what startGame has returned before the supply answered
Pending == "pending"

\* the bets typed into the form
UiBets == {bet \in Bets : bet > 0}

RemoveAt(s, i) == SubSeq(s, 1, i - 1) \o SubSeq(s, i + 1, Len(s))

\* the Hits that are awaiting
HitsInFlight == Cardinality({i \in 1..Len(inFlight) : inFlight[i] = Hit})

updateGameState ==
    shown' = [phase |-> currentPhase', gameOver |-> gameOver', balance |-> playerBalance']

\* the bet form: shown in Betting unless the game is over, its button
\* enabled while the bet is within the balance the page shows
PlaceBetEnabled(bet) ==
    /\ InBounds
    /\ shown.phase = Betting
    /\ ~shown.gameOver
    /\ bet <= shown.balance

\* Place Bet with a bet startGame refuses: placeBet catches the error
UiPlaceBetRejected(bet) ==
    /\ PlaceBetEnabled(bet)
    /\ startGameCheck(bet, playerBalance) # Ok
    /\ lastOp' = "startGame"
    /\ lastBet' = bet
    /\ lastResult' = startGameCheck(bet, playerBalance)
    /\ lastDrawn' = <<>>
    /\ UNCHANGED <<engine, lastCalls, roundBalance, faults, page>>

\* Place Bet: startGame up to its first await, lines 61-75
UiPlaceBet(bet) ==
    /\ PlaceBetEnabled(bet)
    /\ Len(inFlight) < MaxInFlight
    /\ startGameCheck(bet, playerBalance) = Ok
    /\ startGameReset(bet)
    /\ inFlight' = Append(inFlight, "startGame")
    /\ lastOp' = "startGame"
    /\ lastBet' = bet
    /\ lastResult' = Pending
    /\ lastDrawn' = <<>>
    /\ roundBalance' = playerBalance
    /\ UNCHANGED <<deck, dealerHand, gameOver, lastCalls, faults, shown>>

\* the supply answers a startGame: lines 77-106, then updateGameState
UiStartGameReturns ==
    \E i \in 1..Len(inFlight) :
        /\ inFlight[i] = "startGame"
        /\ \E cards \in Deals, rem \in ReportedRemaining(4) :
             LET hand == playerCards(cards)
                 dealer == dealerCards(cards)
                 hands == [playerHands EXCEPT ![1] = hand]
                 outcome == initialOutcome(hands[activeHandIndex + 1], dealer)
             IN  /\ deck' = rem
                 /\ playerHands' = hands
                 /\ dealerHand' = dealer
                 /\ gameOutcomes' = [gameOutcomes EXCEPT ![1] = outcome]
                 /\ playerBalance' = playerBalance + initialCredit(outcome, playerBets[1])
                 /\ currentPhase' = IF outcome = Null THEN PlayerTurn ELSE Outcome
                 /\ lastResult' = outcome
                 /\ lastDrawn' = cards
        /\ inFlight' = RemoveAt(inFlight, i)
        /\ lastOp' = "startGame"
        /\ lastBet' = playerBets[1]
        /\ UNCHANGED <<activeHandIndex, playerBets, gameOver, splitHandsIndices,
                       lastCalls, roundBalance, faults>>
        /\ updateGameState

\* the action buttons: shown while the page's phase is PlayerTurn
ActionEnabled ==
    /\ InBounds
    /\ shown.phase = PlayerTurn
    /\ Len(inFlight) < MaxInFlight
    /\ \A i \in 1..Len(inFlight) : inFlight[i] # "startGame"

\* Hit: handleAction up to the await in hit, lines 406-410 and 119
UiHit ==
    /\ ActionEnabled
    /\ Len(getActiveHand) + HitsInFlight < MaxHandLen
    /\ inFlight' = Append(inFlight, Hit)
    /\ lastOp' = Hit
    /\ lastBet' = 0
    /\ lastResult' = Pending
    /\ lastDrawn' = <<>>
    /\ UNCHANGED <<engine, lastCalls, roundBalance, faults, shown>>

\* lines 142-143 of dealerPlay and the checkGameOver after it, the dealer's
\* hand being dealer at the end of the loop
dealerPlayEnds(hands, dealer) ==
    /\ dealerHand' = dealer
    /\ currentPhase' = Outcome
    /\ gameOutcomes' = checkAllHandsOutcome(hands, playerBets, dealer)
    /\ playerBalance' = BalanceAfter(hands, playerBets, dealer, playerBalance, Len(hands))
    /\ gameOver' = checkGameOver(playerBalance')

\* the supply answers a Hit: lines 120-123 and 411-427, then updateGameState
UiHitReturns ==
    \E i \in 1..Len(inFlight), c \in Ranks, rem \in ReportedRemaining(1) :
        /\ inFlight[i] = Hit
        /\ LET activeHand == pushDrawn(getActiveHand, <<c>>)
               hands == [playerHands EXCEPT ![activeHandIndex + 1] = activeHand]
           IN  /\ playerHands' = hands
               /\ IF isBust(activeHand) /\ ~moveToNextHand(activeHandIndex, hands).moved
                  THEN \E dealer \in DealerFinalHands(dealerHand) :
                         /\ dealerPlayEnds(hands, dealer)
                         /\ lastDrawn' = <<c>> \o Drop(dealer, Len(dealerHand))
                  ELSE /\ lastDrawn' = <<c>>
                       /\ UNCHANGED <<dealerHand, currentPhase, gameOutcomes,
                                      playerBalance, gameOver>>
        /\ deck' = rem
        /\ inFlight' = RemoveAt(inFlight, i)
        /\ lastOp' = Hit
        /\ lastBet' = 0
        /\ lastResult' = Undefined
        /\ UNCHANGED <<activeHandIndex, playerBets, splitHandsIndices,
                       lastCalls, roundBalance, faults>>
        /\ updateGameState

\* Stand with the dealer at 17 or more: handleAction returns without a call
\* to the supply, lines 431-438, then updateGameState
UiStandAtOnce ==
    /\ ActionEnabled
    /\ ~moveToNextHand(activeHandIndex, playerHands).moved
    /\ calculateHandValue(dealerHand) >= 17
    /\ dealerPlayEnds(playerHands, dealerHand)
    /\ lastOp' = Stand
    /\ lastBet' = 0
    /\ lastResult' = Undefined
    /\ lastDrawn' = <<>>
    /\ UNCHANGED <<deck, playerHands, activeHandIndex, playerBets, splitHandsIndices,
                   lastCalls, roundBalance, faults, inFlight>>
    /\ updateGameState

\* Stand with the dealer below 17: handleAction up to the await in
\* hitDealer, lines 431-437, 138-140
UiStand ==
    /\ ActionEnabled
    /\ ~moveToNextHand(activeHandIndex, playerHands).moved
    /\ calculateHandValue(dealerHand) < 17
    /\ currentPhase' = DealerTurn
    /\ inFlight' = Append(inFlight, Stand)
    /\ lastOp' = Stand
    /\ lastBet' = 0
    /\ lastResult' = Pending
    /\ lastDrawn' = <<>>
    /\ UNCHANGED <<deck, playerHands, activeHandIndex, dealerHand, playerBets,
                   playerBalance, gameOver, splitHandsIndices, gameOutcomes,
                   lastCalls, roundBalance, faults, shown>>

\* the supply answers the hitDealer of a Stand: the card is pushed, the
\* loop of dealerPlay goes on to its end, then updateGameState
UiStandReturns ==
    \E i \in 1..Len(inFlight), c \in Ranks, rem \in ReportedRemaining(1) :
        /\ inFlight[i] = Stand
        /\ \E dealer \in DealerFinalHands(pushDrawn(dealerHand, <<c>>)) :
             /\ dealerPlayEnds(playerHands, dealer)
             /\ lastDrawn' = Drop(dealer, Len(dealerHand))
        /\ deck' = rem
        /\ inFlight' = RemoveAt(inFlight, i)
        /\ lastOp' = Stand
        /\ lastBet' = 0
        /\ lastResult' = Undefined
        /\ UNCHANGED <<playerHands, activeHandIndex, playerBets, splitHandsIndices,
                       lastCalls, roundBalance, faults>>
        /\ updateGameState

\* the supply fails an awaiting operation: it throws and the page does not
\* reach updateGameState
UiSupplyFails ==
    \E i \in 1..Len(inFlight) :
        /\ faults < MaxFaults
        /\ faults' = faults + 1
        /\ inFlight' = RemoveAt(inFlight, i)
        /\ lastOp' = inFlight[i]
        /\ lastBet' = IF inFlight[i] = "startGame" THEN playerBets[1] ELSE 0
        /\ lastResult' = ErrDraw
        /\ lastDrawn' = <<>>
        /\ UNCHANGED <<engine, lastCalls, roundBalance, shown>>

\* New Round: shown in Outcome unless the game is over
UiNewRound ==
    /\ InBounds
    /\ shown.phase = Outcome
    /\ ~shown.gameOver
    /\ inFlight = <<>>
    /\ currentPhase' = Betting
    /\ playerHands' = << <<>> >>
    /\ playerBets' = <<0>>
    /\ activeHandIndex' = 0
    /\ gameOutcomes' = <<Null>>
    /\ splitHandsIndices' = <<>>
    /\ dealerHand' = <<>>
    /\ lastOp' = "newRound"
    /\ lastBet' = 0
    /\ lastResult' = Undefined
    /\ lastDrawn' = <<>>
    /\ UNCHANGED <<deck, playerBalance, gameOver, lastCalls, roundBalance, faults,
                   inFlight>>
    /\ updateGameState

\* Restart Game: shown when the game is over
UiRestartGame ==
    /\ shown.gameOver
    /\ inFlight = <<>>
    /\ playerBalance' = 1000
    /\ gameOver' = FALSE
    /\ currentPhase' = Betting
    /\ playerHands' = << <<>> >>
    /\ playerBets' = <<0>>
    /\ activeHandIndex' = 0
    /\ gameOutcomes' = <<Null>>
    /\ splitHandsIndices' = <<>>
    /\ lastOp' = "restartGame"
    /\ lastBet' = 0
    /\ lastResult' = Undefined
    /\ lastDrawn' = <<>>
    /\ UNCHANGED <<deck, dealerHand, lastCalls, roundBalance, faults, inFlight>>
    /\ updateGameState

UiNext ==
    \/ \E bet \in UiBets : UiPlaceBetRejected(bet)
    \/ \E bet \in UiBets : UiPlaceBet(bet)
    \/ UiStartGameReturns
    \/ UiHit
    \/ UiHitReturns
    \/ UiStandAtOnce
    \/ UiStand
    \/ UiStandReturns
    \/ UiSupplyFails
    \/ UiNewRound
    \/ UiRestartGame

UiSpec == Init /\ [][UiNext]_vars

(***************************************************************************)
(* Properties.  A step of an operation is recognised by what the caller    *)
(* saw of it: lastOp', lastBet', lastResult' and lastDrawn'.               *)
(***************************************************************************)
\* the step is a call of handleAction / of startGame
ActionStep == lastOp' \in PlayerActions

StartStep == lastOp' = "startGame"

\* C1: handleAction called while the phase is not PlayerTurn fails with an
\* error and leaves hands, dealer hand, bets, outcomes, balance,
\* activeHandIndex and phase unchanged.
C1_ActionsPhaseGuarded ==
    [][(ActionStep /\ currentPhase # PlayerTurn)
         => /\ lastResult' \in Errors
            /\ UNCHANGED <<playerHands, dealerHand, playerBets, gameOutcomes,
                           playerBalance, activeHandIndex, currentPhase>>]_vars

\* C3: startGame with a bet that is no multiple of 10 throws "Bet must be
\* divisible by 10", with a multiple of 10 greater than the balance it
\* throws "Insufficient balance", and in both cases balance, phase, hands,
\* bets, outcomes, split markers and dealer hand are unchanged.
C3_BadBetRejected ==
    [][(StartStep /\ (lastBet' % 10 # 0 \/ lastBet' > playerBalance))
         => /\ lastResult' = (IF lastBet' % 10 # 0 THEN ErrBet ELSE ErrBalance)
            /\ UNCHANGED <<playerBalance, currentPhase, playerHands, playerBets,
                           gameOutcomes, splitHandsIndices, dealerHand>>]_vars

\* C3 happens: a bet of 500 was refused in the middle of a game for a
\* balance of less
C3_Witness ==
    /\ lastOp = "startGame"
    /\ lastBet = 500
    /\ lastResult = ErrBalance
    /\ playerBalance < 500

\* C4: startGame with a bet of 0 or a negative multiple of 10 is rejected
\* and the state is unchanged (whenever the supply does not fail).
C4_NonPositiveBetRejected ==
    [][(StartStep /\ lastBet' <= 0 /\ lastBet' % 10 = 0 /\ lastResult' \notin SupplyErrors)
         => /\ lastResult' \in Errors
            /\ UNCHANGED engine]_vars

\* the outcome of a hand against the dealer's hand by their totals
ExpectedOutcome(hand, dealer) ==
    LET p == calculateHandValue(hand)
        d == calculateHandValue(dealer)
    IN  IF p > 21 THEN PlayerBust
        ELSE IF d > 21 THEN DealerBust
        ELSE IF p > d THEN PlayerWins
        ELSE IF d > p THEN DealerWins
        ELSE Push

\* what an outcome credits to the balance
ExpectedCredit(outcome, bet) ==
    IF outcome \in {DealerBust, PlayerWins} THEN bet * 2
    ELSE IF outcome = Push THEN bet
    ELSE 0

\* the credits of the outcomes of index 1 .. n, the one of index skip left out
RECURSIVE CreditsOf(_, _, _, _)
CreditsOf(outcomes, bets, n, skip) ==
    IF n = 0 THEN 0
    ELSE CreditsOf(outcomes, bets, n - 1, skip)
         + (IF n = skip THEN 0 ELSE ExpectedCredit(outcomes[n], bets[n]))

\* the step is a Hit or a Stand that ran the dealer's play to its end
DealerPlayedStep ==
    /\ lastOp' \in {Hit, Stand}
    /\ lastResult' = Undefined
    /\ activeHandIndex' = activeHandIndex
    /\ lastOp' = Hit => calculateHandValue(playerHands'[activeHandIndex + 1]) > 21

\* C2: after the dealer's play every hand that is not bust gets DealerBust
\* and bet * 2 if the dealer is bust, else PlayerWins and bet * 2 on a higher
\* total, DealerWins and nothing on a lower one, Push and the bet on equal
\* totals; a bust hand gets PlayerBust and nothing, the dealer bust or not.
C2_OutcomeResolution ==
    [][DealerPlayedStep
         => /\ Len(gameOutcomes') = Len(playerHands')
            /\ \A i \in 1..Len(playerHands') :
                  gameOutcomes'[i] = ExpectedOutcome(playerHands'[i], dealerHand')
            /\ playerBalance' =
                  playerBalance + CreditsOf(gameOutcomes', playerBets', Len(playerHands'), 0)]_vars

\* C2 happens: of two hands the first is bust and the second wins by the
\* dealer's bust
C2_Witness ==
    /\ lastOp \in {Hit, Stand}
    /\ currentPhase = Outcome
    /\ calculateHandValue(dealerHand) > 21
    /\ Len(playerHands) = 2
    /\ calculateHandValue(playerHands[1]) > 21
    /\ gameOutcomes = <<PlayerBust, DealerBust>>

\* the step is a call of startGame that dealt the four cards
DealStep == StartStep /\ lastResult' \notin Errors

\* a hand of two cards that total 21
TwoCard21(hand) == Len(hand) = 2 /\ calculateHandValue(hand) = 21

\* C5: a startGame that deals without a natural blackjack on either side
\* debits the balance by the bet, leaves one player hand holding drawn cards
\* 0 and 1 and a dealer hand holding drawn cards 2 and 3, bets [bet],
\* outcomes [null], activeHandIndex 0, no split markers, returns null and
\* ends in PlayerTurn.
C5_DealWithoutBlackjack ==
    [][(DealStep /\ ~TwoCard21(SubSeq(lastDrawn', 1, 2))
                 /\ ~TwoCard21(SubSeq(lastDrawn', 3, 4)))
         => /\ Len(lastDrawn') = 4
            /\ playerBalance' = playerBalance - lastBet'
            /\ playerHands' = << <<lastDrawn'[1], lastDrawn'[2]>> >>
            /\ dealerHand' = <<lastDrawn'[3], lastDrawn'[4]>>
            /\ playerBets' = <<lastBet'>>
            /\ gameOutcomes' = <<Null>>
            /\ activeHandIndex' = 0
            /\ splitHandsIndices' = <<>>
            /\ lastResult' = Null
            /\ currentPhase' = PlayerTurn]_vars

\* C5 happens: a round of bet 500 was dealt from a balance of 1000 and
\* went to the player's turn
C5_Witness ==
    /\ lastOp = "startGame"
    /\ lastBet = 500
    /\ lastResult = Null
    /\ currentPhase = PlayerTurn
    /\ playerBalance = 500
    /\ Len(lastDrawn) = 4

\* C6: after a startGame that dealt, both two-card hands on 21 give Push,
\* the player's only PlayerBlackjack, the dealer's only DealerBlackjack, in
\* the three cases with phase Outcome and the value returned equal to
\* outcomes[0]; neither on 21 gives PlayerTurn and outcomes[0] = null.
C6_BlackjackClassification ==
    [][DealStep
         => LET player21 == TwoCard21(playerHands'[1])
                dealer21 == TwoCard21(dealerHand')
                expected == IF player21 /\ dealer21 THEN Push
                            ELSE IF player21 THEN PlayerBlackjack
                            ELSE IF dealer21 THEN DealerBlackjack
                            ELSE Null
            IN  /\ gameOutcomes'[1] = expected
                /\ expected # Null => (currentPhase' = Outcome /\ lastResult' = gameOutcomes'[1])
                /\ expected = Null => currentPhase' = PlayerTurn]_vars

\* C6 happens: both hands were dealt a natural blackjack
C6_Witness ==
    /\ lastOp = "startGame"
    /\ lastResult = Push
    /\ TwoCard21(playerHands[1])
    /\ TwoCard21(dealerHand)
    /\ currentPhase = Outcome

\* C7: against the balance before startGame(bet), the balance after it is
\* the same on a blackjack Push, higher by floor(bet * 2.5) - bet on
\* PlayerBlackjack and lower by bet on DealerBlackjack.
C7_BlackjackPayouts ==
    [][DealStep
         => /\ lastResult' = Push => playerBalance' = playerBalance
            /\ lastResult' = PlayerBlackjack
                 => playerBalance' = playerBalance + ((lastBet' * 5) \div 2) - lastBet'
            /\ lastResult' = DealerBlackjack
                 => playerBalance' = playerBalance - lastBet']_vars

\* C7 happens: a player blackjack on a bet of 500 from a balance of 1000
C7_Witness ==
    /\ lastOp = "startGame"
    /\ lastBet = 500
    /\ lastResult = PlayerBlackjack
    /\ playerBalance = 1750

\* the step is a Hit / a Stand of the player's turn that ran to its end
HitStep == lastOp' = Hit /\ currentPhase = PlayerTurn /\ lastResult' = Undefined

StandStep == lastOp' = Stand /\ currentPhase = PlayerTurn /\ lastResult' = Undefined

\* C8: a Hit that busts the active hand sets its outcome to PlayerBust and
\* credits nothing for it; if the hand is not the last one activeHandIndex
\* advances by one and the phase stays PlayerTurn, otherwise the dealer
\* plays, every hand is resolved and the phase ends as Outcome.
C8_HitBust ==
    [][(HitStep /\ calculateHandValue(playerHands'[activeHandIndex + 1]) > 21)
         => /\ gameOutcomes'[activeHandIndex + 1] = PlayerBust
            /\ IF activeHandIndex < Len(playerHands) - 1
               THEN /\ activeHandIndex' = activeHandIndex + 1
                    /\ currentPhase' = PlayerTurn
                    /\ playerBalance' = playerBalance
               ELSE /\ currentPhase' = Outcome
                    /\ calculateHandValue(dealerHand') >= 17
                    /\ \A j \in 1..Len(playerHands') : gameOutcomes'[j] # Null
                    /\ playerBalance' =
                          playerBalance + CreditsOf(gameOutcomes', playerBets',
                                                    Len(playerHands'), activeHandIndex + 1)]_vars

\* C8 happens: the first of two hands went bust on a Hit and the second
\* became the active one
C8_Witness ==
    /\ lastOp = Hit
    /\ lastResult = Undefined
    /\ currentPhase = PlayerTurn
    /\ Len(playerHands) = 2
    /\ activeHandIndex = 1
    /\ calculateHandValue(playerHands[1]) > 21
    /\ gameOutcomes = <<PlayerBust, Null>>

\* C9: a Hit that does not bust the active hand appends the one card drawn
\* to the active hand and changes nothing else of the round: phase,
\* activeHandIndex, balance, bets, outcomes, the other hand, the dealer's
\* hand, the split markers and gameOver.
C9_HitNoBust ==
    [][(HitStep /\ calculateHandValue(playerHands'[activeHandIndex + 1]) <= 21)
         => /\ Len(lastDrawn') = 1
            /\ playerHands' = [playerHands EXCEPT ![activeHandIndex + 1] =
                                                     Append(@, lastDrawn'[1])]
            /\ UNCHANGED <<currentPhase, activeHandIndex, playerBalance, playerBets,
                           gameOutcomes, dealerHand, splitHandsIndices, gameOver>>]_vars

\* C9 happens: the second of two hands took a third card and is not bust
C9_Witness ==
    /\ lastOp = Hit
    /\ lastResult = Undefined
    /\ currentPhase = PlayerTurn
    /\ Len(playerHands) = 2
    /\ activeHandIndex = 1
    /\ Len(playerHands[2]) = 3
    /\ calculateHandValue(playerHands[2]) <= 21
    /\ Len(lastDrawn) = 1

\* C10: a Stand in PlayerTurn on a hand that is not the last one advances
\* activeHandIndex by one, keeps PlayerTurn and draws no card; on the last
\* hand the dealer plays, every hand is resolved and the phase ends as
\* Outcome.
C10_Stand ==
    [][StandStep
         => IF activeHandIndex < Len(playerHands) - 1
            THEN /\ activeHandIndex' = activeHandIndex + 1
                 /\ currentPhase' = PlayerTurn
                 /\ lastDrawn' = <<>>
                 /\ UNCHANGED <<playerHands, dealerHand>>
            ELSE /\ currentPhase' = Outcome
                 /\ calculateHandValue(dealerHand') >= 17
                 /\ \A j \in 1..Len(playerHands') : gameOutcomes'[j] # Null]_vars

\* C10 happens: a Stand on the first of two hands made the second the
\* active one
C10_Witness ==
    /\ lastOp = Stand
    /\ lastResult = Undefined
    /\ currentPhase = PlayerTurn
    /\ Len(playerHands) = 2
    /\ activeHandIndex = 1
    /\ gameOutcomes = <<Null, Null>>
    /\ lastDrawn = <<>>

\* the step is a call of handleAction(action) in PlayerTurn in which the
\* supply did not fail
TurnStep(action) ==
    lastOp' = action /\ currentPhase = PlayerTurn /\ lastResult' \notin SupplyErrors

\* C11: DoubleDown in PlayerTurn on an active hand of two cards with a
\* balance of at least its bet doubles the hand's recorded bet and draws
\* exactly one card into the hand (and debits the bet, and ends the hand's
\* turn as Stand does).
C11_DoubleDown ==
    [][(TurnStep(DoubleDown) /\ Len(getActiveHand) = 2 /\ playerBalance >= getActiveHandBet)
         => /\ playerBets'[activeHandIndex + 1] = 2 * getActiveHandBet
            /\ Len(lastDrawn') >= 1
            /\ playerHands'[activeHandIndex + 1] = Append(getActiveHand, lastDrawn'[1])
            /\ \/ activeHandIndex' = activeHandIndex + 1
               \/ currentPhase' = Outcome]_vars

\* C12: Surrender in PlayerTurn on the untouched two-card hand of a round
\* sets the hand's outcome to PlayerSurrender, credits floor(bet / 2), ends
\* the hand's turn and draws no card into the hand.
C12_Surrender ==
    [][(TurnStep(Surrender) /\ Len(playerHands) = 1 /\ Len(getActiveHand) = 2)
         => /\ gameOutcomes'[1] = PlayerSurrender
            /\ playerBalance' = playerBalance + (playerBets[1] \div 2)
            /\ playerHands' = playerHands
            /\ currentPhase' # PlayerTurn]_vars

\* C13: a Split of the player's turn that runs to its end debits the
\* balance by the active hand's bet, replaces the active hand with [its
\* first card, first drawn card], appends [its second card, second drawn
\* card] with an equal bet and a null outcome, marks both indices as
\* split-originated and leaves phase and activeHandIndex unchanged.
C13_SplitEffect ==
    [][(TurnStep(Split) /\ lastResult' = Undefined)
         => LET i == activeHandIndex + 1
                n == Len(playerHands)
            IN  /\ Len(lastDrawn') = 2
                /\ playerBalance' = playerBalance - playerBets[i]
                /\ Len(playerHands') = n + 1
                /\ playerHands'[i] = <<playerHands[i][1], lastDrawn'[1]>>
                /\ playerHands'[n + 1] = <<playerHands[i][2], lastDrawn'[2]>>
                /\ \A j \in 1..n : j # i => playerHands'[j] = playerHands[j]
                /\ playerBets' = Append(playerBets, playerBets[i])
                /\ gameOutcomes' = Append(gameOutcomes, Null)
                /\ \E a, b \in 1..Len(splitHandsIndices') :
                      /\ splitHandsIndices'[a] = activeHandIndex
                      /\ splitHandsIndices'[b] = n
                /\ currentPhase' = PlayerTurn
                /\ activeHandIndex' = activeHandIndex]_vars

\* C13 happens: a pair of aces on a bet of 500 was split, each ace getting
\* a different card
C13_Witness ==
    /\ lastOp = Split
    /\ lastResult = Undefined
    /\ currentPhase = PlayerTurn
    /\ activeHandIndex = 0
    /\ playerHands = << <<"ACE", "KING">>, <<"ACE", "6">> >>
    /\ lastDrawn = <<"KING", "6">>
    /\ playerBets = <<500, 500>>
    /\ playerBalance = 0
    /\ splitHandsIndices = <<0, 1>>

\* the value of a rank for the comparison of a pair
RankValue(card) ==
    IF card \in {"10", "JACK", "QUEEN", "KING"} THEN 10
    ELSE IF card = "ACE" THEN 11
    ELSE ParseInt(card)

\* the active hand may be split, by the rule
Eligible ==
    /\ Len(getActiveHand) = 2
    /\ RankValue(getActiveHand[1]) = RankValue(getActiveHand[2])
    /\ \A k \in 1..Len(splitHandsIndices) : splitHandsIndices[k] # activeHandIndex
    /\ playerBalance >= getActiveHandBet

\* C14: canSplit is true exactly when the active hand has two cards of
\* equal rank-value, the active index is not split-originated and the
\* balance is at least the active hand's bet; a Split is refused ("Cannot
\* split this hand") exactly when it is false, and then balance, hands,
\* bets, outcomes and split markers are unchanged.
C14_SplitEligibility ==
    [][/\ canSplit <=> Eligible
       /\ lastOp' = Split
            => /\ (lastResult' = ErrSplit) <=> ~Eligible
               /\ ~Eligible => UNCHANGED <<playerBalance, playerHands, playerBets,
                                           gameOutcomes, splitHandsIndices>>]_vars

\* C14 happens: a queen and a king were split
C14_Witness ==
    /\ lastOp = Split
    /\ lastResult = Undefined
    /\ Len(playerHands) = 2
    /\ playerHands[1][1] = "QUEEN"
    /\ playerHands[2][1] = "KING"

\* C15: there are one or two player hands in every state, and a Split
\* called when there are two is refused and leaves the hands as they are.
C15_NoResplit ==
    [][/\ Len(playerHands) \in {1, 2}
       /\ Len(playerHands') \in {1, 2}
       /\ (lastOp' = Split /\ Len(playerHands) = 2)
            => (lastResult' = ErrSplit /\ UNCHANGED playerHands)]_vars

\* C15 happens: a Split was refused on the second of two hands, a pair, with
\* a balance that covers its bet
C15_Witness ==
    /\ lastOp = Split
    /\ lastResult = ErrSplit
    /\ Len(playerHands) = 2
    /\ activeHandIndex = 1
    /\ Len(playerHands[2]) = 2
    /\ RankValue(playerHands[2][1]) = RankValue(playerHands[2][2])
    /\ playerBalance >= playerBets[2]

\* C16: a handleAction step adds cards to the end of the dealer's hand
\* only, each of them drawn onto a hand valued below 17 (so a hand of 17 or
\* more, soft 17 included, gets none), and when the dealer's play completes
\* the dealer's hand is valued 17 or more.
C16_DealerPolicy ==
    [][ActionStep
         => /\ Len(dealerHand') >= Len(dealerHand)
            /\ SubSeq(dealerHand', 1, Len(dealerHand)) = dealerHand
            /\ \A k \in Len(dealerHand)..(Len(dealerHand') - 1) :
                  calculateHandValue(SubSeq(dealerHand', 1, k)) < 17
            /\ calculateHandValue(dealerHand) >= 17 => dealerHand' = dealerHand
            /\ DealerPlayedStep => calculateHandValue(dealerHand') >= 17]_vars

\* C16 happens: the dealer's play completed on a soft 17 without a draw
C16_Witness ==
    /\ lastOp = Stand
    /\ lastResult = Undefined
    /\ currentPhase = Outcome
    /\ dealerHand = <<"ACE", "6">>
    /\ lastDrawn = <<>>

\* C17: in every state there are as many bets and as many outcomes as
\* player hands.
C17_ParallelCollections ==
    /\ Len(playerBets) = Len(playerHands)
    /\ Len(gameOutcomes) = Len(playerHands)

\* C17 happens: a round of two hands was resolved
C17_Witness ==
    /\ Len(playerHands) = 2
    /\ Len(playerBets) = 2
    /\ Len(gameOutcomes) = 2
    /\ currentPhase = Outcome
    /\ lastOp = Stand
    /\ \A j \in 1..2 : gameOutcomes[j] # Null

\* C18: in every state 0 <= activeHandIndex < number of player hands, and
\* moveToNextHand reports a move and leaves the index one higher exactly
\* when the active hand is not the last, and otherwise leaves the index.
C18_ActiveIndexInRange ==
    /\ activeHandIndex >= 0
    /\ activeHandIndex < Len(playerHands)
    /\ LET r == moveToNextHand(activeHandIndex, playerHands)
       IN  IF activeHandIndex < Len(playerHands) - 1
           THEN r.moved /\ r.index = activeHandIndex + 1
           ELSE ~r.moved /\ r.index = activeHandIndex

\* C18 happens: the second of two hands went bust on a Hit and stayed the
\* active one through the dealer's play
C18_Witness ==
    /\ lastOp = Hit
    /\ lastResult = Undefined
    /\ currentPhase = Outcome
    /\ Len(playerHands) = 2
    /\ activeHandIndex = 1
    /\ gameOutcomes[2] = PlayerBust

\* C19: whenever a startGame, a Hit or a Stand on a positive bet ends in
\* phase Outcome with a balance of 0 or less, gameOver is set (stated for
\* runs in which every operation was called where the presentation layer
\* offers it and the supply never failed).
C19_GameOverDetected ==
    [][((StartStep \/ lastOp' \in {Hit, Stand})
        /\ faults' = 0
        /\ lastResult' \notin Errors
        /\ currentPhase' = Outcome
        /\ playerBets'[1] > 0
        /\ playerBalance' <= 0)
         => gameOver']_vars

\* C20: while gameOver is set, startGame is rejected for every bet and
\* changes nothing (whenever the supply does not fail).
C20_GameOverBlocksBetting ==
    [][(StartStep /\ gameOver /\ lastResult' \notin SupplyErrors)
         => /\ lastResult' \in {ErrBet, ErrBalance}
            /\ UNCHANGED engine]_vars

\* C21: restartGame, from any state, sets the balance to 1000, clears
\* gameOver, sets the phase to Betting and leaves one empty hand with bets
\* <<0>>, outcomes <<Null>>, active index 0 and no split markers.
C21_RestartGame ==
    [][lastOp' = "restartGame"
         => /\ playerBalance' = 1000
            /\ gameOver' = FALSE
            /\ currentPhase' = Betting
            /\ playerHands' = << <<>> >>
            /\ playerBets' = <<0>>
            /\ gameOutcomes' = <<Null>>
            /\ activeHandIndex' = 0
            /\ splitHandsIndices' = <<>>]_vars

\* restartGame has run after a round that left the player at 0 was dealt
C21_Witness ==
    /\ lastOp = "restartGame"
    /\ roundBalance = 500
    /\ dealerHand # <<>>
    /\ playerBalance = 1000
    /\ ~gameOver

\* C22: newRound leaves one empty hand with bets <<0>>, outcomes <<Null>>,
\* active index 0 and no split markers, empties the dealer hand, sets the
\* phase to Betting, and leaves the balance and gameOver as they were.
C22_NewRound ==
    [][lastOp' = "newRound"
         => /\ playerHands' = << <<>> >>
            /\ playerBets' = <<0>>
            /\ gameOutcomes' = <<Null>>
            /\ activeHandIndex' = 0
            /\ splitHandsIndices' = <<>>
            /\ dealerHand' = <<>>
            /\ currentPhase' = Betting
            /\ UNCHANGED <<playerBalance, gameOver>>]_vars

\* newRound has run while gameOver was set and the balance was 0
C22_Witness ==
    /\ lastOp = "newRound"
    /\ gameOver
    /\ playerBalance = 0
    /\ dealerHand = <<>>

\* C23: the balance is never negative.
C23_BalanceNonNegative == playerBalance >= 0

\* the number of aces among the first n cards of hand
RECURSIVE AceCount(_, _)
AceCount(hand, n) ==
    IF n = 0 THEN 0
    ELSE AceCount(hand, n - 1) + (IF hand[n] = "ACE" THEN 1 ELSE 0)

\* the total of the first n cards of hand with every ace scored as 1
RECURSIVE HardTotal(_, _)
HardTotal(hand, n) ==
    IF n = 0 THEN 0
    ELSE HardTotal(hand, n - 1)
         + (IF hand[n] = "ACE" THEN 1
            ELSE IF hand[n] \in {"JACK", "QUEEN", "KING"} THEN 10
            ELSE ParseInt(hand[n]))

\* the totals of hand, each ace scored as 11 or as 1
Totals(hand) ==
    {HardTotal(hand, Len(hand)) + 10 * k : k \in 0..AceCount(hand, Len(hand))}

\* the largest total of at most 21, or the total with every ace as 1
BestTotal(hand) ==
    LET ok == {t \in Totals(hand) : t <= 21}
    IN  IF ok # {} THEN CHOOSE t \in ok : \A u \in ok : u <= t
        ELSE HardTotal(hand, Len(hand))

\* C24: calculateHandValue returns the largest total of at most 21 that
\* scoring each ace as 11 or as 1 gives, or the total with every ace as 1
\* when there is none; it is the total with every ace as 11 when that is at
\* most 21.
C24_BestTotal ==
    lastOp = "calculateHandValue"
      => LET hand == playerHands[1]
             soft == HardTotal(hand, Len(hand)) + 10 * AceCount(hand, Len(hand))
         IN  /\ lastResult = BestTotal(hand)
             /\ soft <= 21 => lastResult = soft

\* ACE, ACE, 9, 3 is valued 14: one ace cannot stay at 11
C24_Witness ==
    /\ lastOp = "calculateHandValue"
    /\ playerHands = << <<"ACE", "ACE", "9", "3">> >>
    /\ lastResult = 14

\* hand is valued 17 with an ace scored as 11
Soft17(hand) ==
    /\ BestTotal(hand) = 17
    /\ HardTotal(hand, Len(hand)) < 17

\* C25: hasSoft17 is true exactly when the hand is valued 17 with some ace
\* scored as 11.
C25_Soft17 ==
    lastOp = "hasSoft17" => (lastResult <=> Soft17(playerHands[1]))

\* C26: when Deck.initialize, deck.reshuffle or deck.draw fails during
\* startGame, Hit, Split or the dealer's play, the balance, the bets, the
\* hands, the outcomes and the phase are as they were before the call
\* (stated for calls whose bet is not negative).
C26_SupplyFailureKeepsState ==
    [][(lastResult' \in {ErrInitialize, ErrReshuffle, ErrDraw} /\ lastBet' >= 0)
         => UNCHANGED <<playerBalance, playerBets, playerHands, gameOutcomes,
                        currentPhase>>]_vars

\* remaining is below 124.8
BelowReshuffleThreshold(remaining) == remaining * 10 < 1248

\* calls[i] asks the supply for a fresh shoe or a reshuffle
IsRefill(calls, i) == calls[i].call \in {"initialize", "reshuffle"}

\* C27: within one operation, every draw made while the supply's remaining
\* count is below 124.8 comes right after a request for a fresh shoe or a
\* reshuffle, and such a request is made only when there is no deck yet or
\* the remaining count is below 124.8.
C27_ReshuffleBeforeDraw ==
    [][\A i \in 1..Len(lastCalls') :
          IF IsRefill(lastCalls', i)
          THEN \/ lastCalls'[i].before = NoDeck
               \/ BelowReshuffleThreshold(lastCalls'[i].before)
          ELSE \/ i > 1 /\ IsRefill(lastCalls', i - 1)
               \/ /\ lastCalls'[i].before # NoDeck
                  /\ ~BelowReshuffleThreshold(lastCalls'[i].before)]_vars

\* a Stand on a deck of 125: the dealer's first card is drawn without a
\* reshuffle, the second one (124 remaining) after a reshuffle
C27_Witness ==
    /\ lastOp = Stand
    /\ currentPhase = Outcome
    /\ Len(lastCalls) = 3
    /\ lastCalls[1] = [call |-> "draw", before |-> 125]
    /\ lastCalls[2] = [call |-> "reshuffle", before |-> 124]
    /\ lastCalls[3] = [call |-> "draw", before |-> 124]

\* what a round without a split adds to the balance it started from
RoundDelta(outcome, bet) ==
    IF outcome = Push THEN 0
    ELSE IF outcome \in {PlayerWins, DealerBust} THEN bet
    ELSE 0 - bet

\* the step ends a round of one hand that was never split
UnsplitRoundEnds ==
    /\ StartStep \/ (lastOp' \in {Hit, Stand} /\ currentPhase = PlayerTurn)
    /\ lastResult' \notin Errors
    /\ currentPhase' = Outcome
    /\ Len(playerHands') = 1
    /\ splitHandsIndices' = <<>>

C29_PhaseShape ==
    /\ currentPhase = Outcome
          => \A j \in 1..Len(playerHands) :
                j <= Len(gameOutcomes) /\ gameOutcomes[j] # Null
    /\ currentPhase = Betting
          => Len(playerHands) = 1 /\ gameOutcomes = <<Null>>

\* C30: an outcome that is set is not changed by any later handleAction.
C30_OutcomeSetOnce ==
    [][ActionStep
         => \A j \in 1..Len(gameOutcomes) :
               gameOutcomes[j] # Null
                 => j <= Len(gameOutcomes') /\ gameOutcomes'[j] = gameOutcomes[j]]_vars

\* C32: after restartGame the dealer hand is empty (stated for a restart
\* that follows rounds whose bets are not negative).
C32_RestartClearsDealer ==
    [][(lastOp' = "restartGame" /\ playerBets[1] >= 0) => dealerHand' = <<>>]_vars

\* C33: once a round is in phase Outcome, no handleAction credits the
\* balance again (stated for rounds whose bets are positive).
C33_SettledOnce ==
    [][(ActionStep
        /\ currentPhase = Outcome
        /\ \A j \in 1..Len(playerBets) : playerBets[j] > 0)
         => playerBalance' <= playerBalance]_vars

\* the sum of the first n bets
RECURSIVE SumBets(_, _)
SumBets(bets, n) == IF n = 0 THEN 0 ELSE SumBets(bets, n - 1) + bets[n]

\* C34: in phase PlayerTurn the balance plus the recorded bets of all hands
\* is the balance from before the round's startGame.
C34_StakeConservation ==
    currentPhase = PlayerTurn
      => playerBalance + SumBets(playerBets, Len(playerBets)) = roundBalance

\* the phase changes the operations may make, an operation taken as a whole:
\* startGame from Betting to InitialDeal and on to PlayerTurn or Outcome,
\* handleAction from PlayerTurn to DealerTurn and on to Outcome, newRound
\* from Outcome to Betting, restartGame from anywhere to Betting
PhaseOrder(op, from, to) ==
    IF op = "restartGame" THEN to = Betting
    ELSE IF op = "newRound" THEN from = Outcome /\ to = Betting
    ELSE IF op = "startGame"
    THEN from = Betting /\ to \in {InitialDeal, PlayerTurn, Outcome}
    ELSE from = PlayerTurn /\ to \in {DealerTurn, Outcome}

\* C35: the phase changes only along Betting -> InitialDeal -> PlayerTurn or
\* Outcome, PlayerTurn -> DealerTurn -> Outcome, Outcome -> Betting by
\* newRound, and anywhere -> Betting by restartGame; startGame and newRound
\* called in PlayerTurn leave the round as it is (stated for the steps of
\* startGame, newRound and restartGame in rounds whose bets are not negative).
C35_PhaseOrder ==
    [][(playerBets[1] >= 0 /\ lastBet' >= 0 /\ lastOp' \notin PlayerActions)
         => /\ currentPhase' # currentPhase
                 => PhaseOrder(lastOp', currentPhase, currentPhase')
            /\ (lastOp' \in {"startGame", "newRound"} /\ currentPhase = PlayerTurn)
                 => UNCHANGED <<currentPhase, playerHands, playerBets, gameOutcomes>>]_vars

\* C36: when every draw returns a card, dealerPlay makes finitely many draws
\* and reaches phase Outcome.
C36_DealerPlayTerminates == <>(currentPhase = Outcome)

\* the dealer's play has ended on ACE, 5, KING, 2: the KING left the value
\* at 16, the ace re-scored from 11 to 1
C36_Witness ==
    /\ currentPhase = Outcome
    /\ dealerHand = <<"ACE", "5", "KING", "2">>
    /\ gameOutcomes = <<DealerWins>>

\* C37: from every state with phase PlayerTurn, a caller who keeps issuing
\* Hit or Stand, every draw returning a card, brings the engine to phase
\* Outcome after finitely many actions.
C37_RoundEnds == (currentPhase = PlayerTurn) ~> (currentPhase = Outcome)

\* a round has ended on a hand that took six Hits before it went bust
C37_Witness ==
    /\ currentPhase = Outcome
    /\ lastOp = Hit
    /\ Len(playerHands) = 1
    /\ Len(playerHands[1]) = 8
    /\ gameOutcomes = <<PlayerBust>>

\* in phase PlayerTurn the active hand is not bust and has no outcome, and
\* no hand after it has an outcome
TurnShape ==
    currentPhase = PlayerTurn
      => /\ calculateHandValue(playerHands[activeHandIndex + 1]) <= 21
         /\ \A j \in (activeHandIndex + 1)..Len(playerHands) : gameOutcomes[j] = Null

\* C38: in every state with phase PlayerTurn the active hand is not bust and
\* its outcome is null, every hand after the active one has a null outcome,
\* and within a round activeHandIndex never decreases.
C38_HandsInOrder ==
    /\ []TurnShape
    /\ [][lastOp' \in PlayerActions => activeHandIndex' >= activeHandIndex]_vars

\* after a split the first hand went bust on a Hit and the second hand, of
\* two cards and no outcome, is the active one
C38_Witness ==
    /\ currentPhase = PlayerTurn
    /\ lastOp = Hit
    /\ Len(playerHands) = 2
    /\ activeHandIndex = 1
    /\ gameOutcomes = <<PlayerBust, Null>>
    /\ calculateHandValue(playerHands[1]) > 21

\* hand j (from 1) came out of a split and is a two-card 21
SplitTwoCard21(hands, markers, j) ==
    /\ TwoCard21(hands[j])
    /\ \E k \in 1..Len(markers) : markers[k] = j - 1

\* C39: PlayerBlackjack and DealerBlackjack are assigned only by startGame,
\* to the one hand of the deal; handleAction never assigns them, and a
\* two-card 21 that came out of a split is resolved by the comparison with
\* the dealer and credited bet * 2 when it wins.
C39_BlackjackOnlyOnDeal ==
    [][/\ DealStep => Len(gameOutcomes') = 1
       /\ ActionStep
            => \A j \in 1..Len(gameOutcomes') :
                  gameOutcomes'[j] \in {PlayerBlackjack, DealerBlackjack}
                    => j <= Len(gameOutcomes) /\ gameOutcomes'[j] = gameOutcomes[j]
       /\ DealerPlayedStep
            => \A j \in 1..Len(playerHands') :
                  SplitTwoCard21(playerHands', splitHandsIndices', j)
                    => /\ gameOutcomes'[j] = ExpectedOutcome(playerHands'[j], dealerHand')
                       /\ playerBalance' - CreditsOf(gameOutcomes', playerBets',
                                                     Len(playerHands'), j)
                            = playerBalance + ExpectedCredit(gameOutcomes'[j], playerBets'[j])]_vars

\* a split hand of KING, ACE has won against a dealer who stayed below 21
C39_Witness ==
    /\ lastOp \in {Hit, Stand}
    /\ currentPhase = Outcome
    /\ Len(playerHands) = 2
    /\ splitHandsIndices = <<0, 1>>
    /\ playerHands[2] = <<"KING", "ACE">>
    /\ gameOutcomes[2] = PlayerWins
    /\ calculateHandValue(dealerHand) < 21

\* C31: with the page as the caller, no second engine operation begins while
\* an earlier one is still awaiting the supply: at most one operation is
\* awaiting at any time.
C31_NoOverlap == Len(inFlight) <= 1

=============================================================================
